---------------------------- MODULE Spec2Model ----------------------------
(***************************************************************************)
(* Deferred-publication pipeline of ai_writer_cdk.                         *)
(*                                                                         *)
(*   createScheduledContent resolver  --put-->  DynamoDB table (stream)    *)
(*   SchedulePostPipe (INSERT + SCHEDULED_CONTENT filter) --> event bus    *)
(*   CatchAllLogRule / CreateScheduledContentRule --> createSchedule fn    *)
(*   buildAtExpression + CreateScheduleCommand --> EventBridge Scheduler   *)
(*   Scheduler fires the one-shot job --> distributeContentFunction        *)
(*                                                                         *)
(* An instant is the time value of a Date, epoch milliseconds, written as   *)
(* the pair [day, ms] that stands for day * 86400000 + ms (0 <= ms <        *)
(* 86400000): the product itself does not fit the checker's integers.      *)
(* The Lambda runtime's local time zone is UTC, so new Date(y, m, d, ...)   *)
(* and toISOString() use the same calendar.                                *)
(***************************************************************************)
EXTENDS Integers, Sequences, FiniteSets, TLC

(***************************************************************************)
(* Bounds of the model.                                                    *)
(***************************************************************************)
\* minutes of "now" after a base instant that the compiler is tried at
MaxNowMinute == 2
\* minute field of the schedules the compiler is tried on goes up to this
MaxSchedMinute == 3
\* content records the resolver creates
MaxRecords == 2
\* duplicate deliveries of stream records by the pipe (at-least-once delivery)
MaxRedeliveries == 1
\* inputs that are not scheduled-content inserts: MODIFY and REMOVE stream
\* records, and events other producers put on the bus
MaxOtherInputs == 1

(***************************************************************************)
(* Program constants.                                                      *)
(***************************************************************************)
\* 60_000 in buildAtExpression
MinuteMs == 60000

(***************************************************************************)
(* Calendar arithmetic of the JavaScript Date object.                      *)
(***************************************************************************)
\* days since 1970-01-01 of the proleptic Gregorian date (y, m, d), m in
\* 1..12; d may overflow the month and then rolls over, as Date does
DaysFromCivil(y, m, d) ==
    LET y1  == IF m <= 2 THEN y - 1 ELSE y
        era == y1 \div 400
        yoe == y1 - era * 400
        mp  == (m + 9) % 12
        doy == (153 * mp + 2) \div 5 + d - 1
        doe == yoe * 365 + yoe \div 4 - yoe \div 100 + doy
    IN  era * 146097 + doe - 719468

\* the calendar date of a day number: inverse of DaysFromCivil on real dates
CivilFromDays(z) ==
    LET z1  == z + 719468
        era == z1 \div 146097
        doe == z1 - era * 146097
        yoe == (doe - doe \div 1460 + doe \div 36524 - doe \div 146096) \div 365
        doy == doe - (365 * yoe + yoe \div 4 - yoe \div 100)
        mp  == (5 * doy + 2) \div 153
        d   == doy - (153 * mp + 2) \div 5 + 1
        m   == IF mp < 10 THEN mp + 3 ELSE mp - 9
        y   == yoe + era * 400 + (IF m <= 2 THEN 1 ELSE 0)
    IN  [year |-> y, month |-> m, day |-> d]

\* the instant day * 86400000 + ms, for any integer ms
Instant(day, ms) ==
    [day |-> day + ms \div 86400000, ms |-> ms % 86400000]

\* a.getTime() < b.getTime(), a.getTime() <= b.getTime()
Before(a, b) == a.day < b.day \/ (a.day = b.day /\ a.ms < b.ms)
NotAfter(a, b) == a = b \/ Before(a, b)

\* the instant ms milliseconds after t (ms below a day's worth)
PlusMs(t, ms) == Instant(t.day, t.ms + ms)

\* the instant n whole minutes after t
PlusMinutes(t, n) ==
    LET total == t.ms \div MinuteMs + n
    IN  [day |-> t.day + total \div 1440,
         ms |-> (total % 1440) * MinuteMs + (t.ms % MinuteMs)]

\* new Date(year, monthIndex, day, hour, minute, second).getTime()
NewDateLocal(year, monthIndex, day, hour, minute, second) ==
    Instant(DaysFromCivil(year, monthIndex + 1, day),
            ((hour * 60 + minute) * 60 + second) * 1000)

\* the calendar fields of instant t, whose day has the calendar date c
FieldsOn(c, t) ==
    [year |-> c.year, month |-> c.month, day |-> c.day,
     hour |-> t.ms \div 3600000,
     minute |-> (t.ms \div MinuteMs) % 60,
     second |-> (t.ms \div 1000) % 60,
     ms |-> t.ms % 1000]

\* the calendar fields of an instant, as toISOString() prints them
DateFields(t) == FieldsOn(CivilFromDays(t.day), t)

DigitChar(d) ==
    CASE d = 0 -> "0" [] d = 1 -> "1" [] d = 2 -> "2" [] d = 3 -> "3"
      [] d = 4 -> "4" [] d = 5 -> "5" [] d = 6 -> "6" [] d = 7 -> "7"
      [] d = 8 -> "8" [] d = 9 -> "9"

CharDigit(c) ==
    CASE c = "0" -> 0 [] c = "1" -> 1 [] c = "2" -> 2 [] c = "3" -> 3
      [] c = "4" -> 4 [] c = "5" -> 5 [] c = "6" -> 6 [] c = "7" -> 7
      [] c = "8" -> 8 [] c = "9" -> 9

IsDigitChar(c) == c \in {"0", "1", "2", "3", "4", "5", "6", "7", "8", "9"}

\* n printed in decimal, zero-padded to w characters, one character per element
Pad(n, w) == [i \in 1..w |-> DigitChar((n \div (10 ^ (w - i))) % 10)]

\* the calendar fields f printed as "YYYY-MM-DDTHH:mm:ss.sssZ"
IsoText(f) ==
    Pad(f.year, 4) \o <<"-">> \o Pad(f.month, 2) \o <<"-">> \o Pad(f.day, 2)
    \o <<"T">> \o Pad(f.hour, 2) \o <<":">> \o Pad(f.minute, 2) \o <<":">>
    \o Pad(f.second, 2) \o <<".">> \o Pad(f.ms, 3) \o <<"Z">>

\* Date.prototype.toISOString()
ToISOString(t) == IsoText(DateFields(t))

\* the characters of s before position i, all of s if i is 0
Prefix(s, i) == IF i = 0 THEN s ELSE SubSeq(s, 1, i - 1)

\* the position of the first "." in s, 0 if there is none
FirstDot(s) ==
    IF \E i \in 1..Len(s) : s[i] = "."
    THEN CHOOSE i \in 1..Len(s) :
            s[i] = "." /\ \A j \in 1..(i - 1) : s[j] # "."
    ELSE 0

\* s.split(".")[0]: the characters before the first "."
SplitDotFirst(s) == Prefix(s, FirstDot(s))

(***************************************************************************)
(* Schedule Time Compiler: buildAtExpression of createScheduleFunction.    *)
(***************************************************************************)
\* targetLocal.getTime(): the six fields read as a local date
TargetLocal(schedule) ==
    NewDateLocal(schedule.year, schedule.month - 1, schedule.day,
                 schedule.hour, schedule.minute, schedule.second)

\* Math.ceil in place of Math.floor
DiffMinutesCeiling(schedule, now) ==
    LET targetLocal == TargetLocal(schedule)
    IN  (targetLocal.day - now.day) * 1440
            - ((now.ms - targetLocal.ms) \div MinuteMs)

\* the difference taken without its sign
DiffMinutesAbsolute(schedule, now) ==
    LET targetLocal == TargetLocal(schedule)
        d == (targetLocal.day - now.day) * 1440
                + (targetLocal.ms - now.ms) \div MinuteMs
    IN  IF d < 0 THEN 0 - d ELSE d

\* Math.floor(diffMs / 60_000) with diffMs = targetLocal.getTime() -
\* now.getTime(); a day is a whole number of minutes, so the floor of the
\* difference is the days' minutes plus the floor of the rest
DiffMinutes(schedule, now) ==
    LET targetLocal == TargetLocal(schedule)
    IN  (targetLocal.day - now.day) * 1440
            + (targetLocal.ms - now.ms) \div MinuteMs

\* the guard with the comparison made strict
IsPastStrict(diffMinutes) == diffMinutes < 0

\* the guard of the throw: diffMinutes <= 0
IsPast(diffMinutes) == diffMinutes <= 0

\* the fire date one minute short
FireDateMinuteShort(now, diffMinutes) == PlusMinutes(now, diffMinutes - 1)

\* the fire date rounded up to the next whole minute after the target
FireDateRoundedUp(now, diffMinutes) == PlusMinutes(now, diffMinutes + 1)

\* new Date(now.getTime() + diffMinutes * 60_000)
FireDate(now, diffMinutes) == PlusMinutes(now, diffMinutes)

\* `at(${atIso})` with atIso = date.toISOString().split(".")[0]
AtExpression(date) ==
    <<"a", "t", "(">> \o SplitDotFirst(ToISOString(date)) \o <<")">>

\* the rest of the call formatting the raw target
CompileOutcomeOfTarget(schedule, now, diffMinutes) ==
    IF IsPast(diffMinutes)
    THEN [kind |-> "PastScheduleError", expr |-> <<>>,
          diffMinutes |-> diffMinutes,
          target |-> ToISOString(TargetLocal(schedule))]
    ELSE [kind |-> "ok", expr |-> AtExpression(TargetLocal(schedule)),
          diffMinutes |-> diffMinutes, target |-> <<>>]

\* the rest of the call once diffMinutes is known: the Error thrown, with the
\* target and diffMinutes of its message, or the string returned
CompileOutcome(schedule, now, diffMinutes) ==
    IF IsPast(diffMinutes)
    THEN [kind |-> "PastScheduleError", expr |-> <<>>,
          diffMinutes |-> diffMinutes,
          target |-> ToISOString(TargetLocal(schedule))]
    ELSE [kind |-> "ok", expr |-> AtExpression(FireDate(now, diffMinutes)),
          diffMinutes |-> diffMinutes, target |-> <<>>]

\* the outcome of one call
buildAtExpression(schedule, now) ==
    CompileOutcome(schedule, now, DiffMinutes(schedule, now))

(***************************************************************************)
(* The older handler's buildAtExpression, which adds the minutes with       *)
(* date-fns.                                                               *)
(***************************************************************************)
\* addMinutes followed by a cut to the start of the minute
addMinutesStartOfMinute(date, amount) ==
    [day |-> date.day + (date.ms + (amount % 1440) * MinuteMs) \div 86400000,
     ms |-> ((date.ms + (amount % 1440) * MinuteMs) % 86400000)
               - (date.ms % MinuteMs)]

\* date-fns addMinutes(date, amount): the date whose time value is
\* date.getTime() + amount * 60000; the whole days of the amount are added
\* to the day, the rest to the milliseconds of the day
addMinutes(date, amount) ==
    Instant(date.day + amount \div 1440,
            date.ms + (amount % 1440) * MinuteMs)

\* the older buildAtExpression once diffMinutes is known
CompileOutcomeOlder(schedule, now, diffMinutes) ==
    IF diffMinutes <= 0
    THEN [kind |-> "PastScheduleError", expr |-> <<>>,
          diffMinutes |-> diffMinutes,
          target |-> ToISOString(TargetLocal(schedule))]
    ELSE [kind |-> "ok",
          expr |-> <<"a", "t", "(">>
                      \o SplitDotFirst(ToISOString(addMinutes(now, diffMinutes)))
                      \o <<")">>,
          diffMinutes |-> diffMinutes, target |-> <<>>]

\* Math.floor(diffMs / 60_000) of the older buildAtExpression: the minutes
\* of the whole days between the two dates plus the floor of the rest
DiffMinutesOlder(targetLocal, now) ==
    1440 * (targetLocal.day - now.day)
        + (targetLocal.ms - now.ms) \div MinuteMs

\* the outcome of one call of the older buildAtExpression
buildAtExpressionOlder(schedule, now) ==
    CompileOutcomeOlder(schedule, now,
                          DiffMinutesOlder(TargetLocal(schedule), now))

(***************************************************************************)
(* How EventBridge Scheduler reads ScheduleExpression: at(yyyy-mm-ddThh:mm:ss)*)
(* in UTC, the default when no ScheduleExpressionTimezone is given.         *)
(***************************************************************************)
\* the number written in the w characters of s that start at position i
RECURSIVE NumAt(_, _, _)
NumAt(s, i, w) ==
    IF w = 0 THEN 0 ELSE NumAt(s, i, w - 1) * 10 + CharDigit(s[i + w - 1])

AtWellFormed(e) ==
    /\ Len(e) = 23
    /\ SubSeq(e, 1, 3) = <<"a", "t", "(">>
    /\ e[23] = ")"
    /\ e[8] = "-" /\ e[11] = "-" /\ e[14] = "T" /\ e[17] = ":" /\ e[20] = ":"
    /\ \A i \in {4, 5, 6, 7, 9, 10, 12, 13, 15, 16, 18, 19, 21, 22} :
          IsDigitChar(e[i])

AtFields(e) ==
    [year |-> NumAt(e, 4, 4), month |-> NumAt(e, 9, 2), day |-> NumAt(e, 12, 2),
     hour |-> NumAt(e, 15, 2), minute |-> NumAt(e, 18, 2),
     second |-> NumAt(e, 21, 2)]

\* the instant of calendar fields f
InstantOfFields(f) ==
    NewDateLocal(f.year, f.month - 1, f.day, f.hour, f.minute, f.second)

\* the instant at which the scheduler fires a job with expression e
AtInstant(e) == InstantOfFields(AtFields(e))

(***************************************************************************)
(* Inputs the compiler is tried on.                                        *)
(***************************************************************************)
BaseInstants ==
    { NewDateLocal(2025, 5, 1, 9, 0, 0),
      NewDateLocal(2025, 5, 1, 10, 0, 0),
      NewDateLocal(2025, 11, 31, 23, 58, 0) }

NowSet ==
    { PlusMs(b, m * MinuteMs + s * 1000 + ms) :
        b \in BaseInstants, m \in 0..MaxNowMinute, s \in {0, 1, 59},
        ms \in {0, 1, 999} }

ScheduleSet ==
    { [year |-> ym[1], month |-> ym[2], day |-> d, hour |-> h, minute |-> mi,
       second |-> s] :
        ym \in {<<2025, 6>>, <<2025, 12>>, <<2026, 1>>}, d \in {1, 31},
        h \in {0, 9, 10, 23}, mi \in 0..MaxSchedMinute, s \in {0, 1, 59} }



(***************************************************************************)
(* Values that cross the pipeline.  A JavaScript object is a function from *)
(* its keys; an absent (undefined) property is a key outside the DOMAIN.    *)
(* A DynamoDB attribute value is {S: string}, {N: numeric string} or       *)
(* {M: map}; a numeric string is its sequence of characters.               *)
(***************************************************************************)
\* String(n) for a number n >= 0: its decimal digits
RECURSIVE NumberToString(_)
NumberToString(n) ==
    IF n < 10 THEN <<DigitChar(n)>>
    ELSE NumberToString(n \div 10) \o <<DigitChar(n % 10)>>

\* Number(s) for a string of decimal digits
Number(s) == NumAt(s, 1, Len(s))

AttrStr(v) == [S |-> v]
AttrNum(n) == [N |-> NumberToString(n)]

\* the attribute map DynamoDB stores for a schedule object
ScheduleToAttr(schedule) ==
    [M |-> [f \in DOMAIN schedule |-> AttrNum(schedule[f])]]

(***************************************************************************)
(* createScheduledContent resolver (resolvers/content/createPosts.js).     *)
(***************************************************************************)
\* util.autoKsuid(): the n-th identifier handed out
AutoKsuid(n) == IF n = 1 THEN "abc123" ELSE "ksuid" \o DigitChar(n)

ScheduledContentTag == "SCHEDULED_CONTENT"

\* a schedule object from its six fields
Sched(y, mo, d, h, mi, s) ==
    [year |-> y, month |-> mo, day |-> d, hour |-> h, minute |-> mi,
     second |-> s]

\* ctx.args.scheduledContentInput values the resolver is called with
ContentInputs ==
    { [userId |-> "u1", draftId |-> "d1", entity |-> ScheduledContentTag,
       schedule |-> Sched(2025, 6, 1, 10, 0, 0)],
      [userId |-> "u2", articleId |-> "a1", entity |-> ScheduledContentTag,
       schedule |-> Sched(2025, 6, 1, 9, 0, 30)],
      [userId |-> "u1", draftId |-> "d1", entity |-> "DRAFT",
       schedule |-> Sched(2025, 6, 1, 10, 0, 0)],
      [userId |-> "u3", articleId |-> "a2", entity |-> ScheduledContentTag] }

\* request(ctx): the item put under key SCH_CONTENT#<id>, as DynamoDB holds it;
\* the properties set after the spread win over the input's, a property the
\* input lacks stays absent; createdOn keeps the instant whose epoch
\* milliseconds the numeric string spells
PutItem(input, id, createdOn) ==
    LET scalars == DOMAIN input \ {"schedule"}
        base == [f \in scalars |-> AttrStr(input[f])]
    IN  [id |-> AttrStr(id),
         PK |-> AttrStr("SCH_CONTENT#" \o id),
         SK |-> AttrStr("SCH_CONTENT#" \o id),
         GSI3PK |-> AttrStr("USER#" \o input.userId),
         GSI3SK |-> AttrStr("SCH_CONTENT#" \o id),
         createdOn |-> [N |-> createdOn]]
        @@ (IF "schedule" \in DOMAIN input
            THEN [schedule |-> ScheduleToAttr(input.schedule)] @@ base
            ELSE base)


(***************************************************************************)
(* SchedulePostPipe: DynamoDB stream --> filter --> input template --> bus. *)
(***************************************************************************)
\* the filter without its eventName criterion
PipeFilterEntityOnly(entry) ==
    /\ "entity" \in DOMAIN entry.NewImage
    /\ "S" \in DOMAIN entry.NewImage.entity
    /\ entry.NewImage.entity.S \in {ScheduledContentTag}

\* filterCriteria: eventName INSERT and dynamodb.NewImage.entity.S equal to
\* the scheduled-content tag
PipeFilter(entry) ==
    /\ entry.eventName \in {"INSERT"}
    /\ "entity" \in DOMAIN entry.NewImage
    /\ "S" \in DOMAIN entry.NewImage.entity
    /\ entry.NewImage.entity.S \in {ScheduledContentTag}

\* inputTemplate '{"scheduledContent": <$.dynamodb.NewImage>}' with the
\* eventBridgeEventBusParameters; eid is the id the bus gives the event
PipeEvent(entry, eid) ==
    [id |-> eid, source |-> "scheduled.content",
     detailType |-> "ScheduleContentCreated",
     detail |-> [scheduledContent |-> entry.NewImage]]

(***************************************************************************)
(* Rules of ScheduledContentEventBus.                                      *)
(***************************************************************************)
\* events.Match.prefix(""): every string starts with the empty prefix
MatchPrefixEmpty(str) == Len(str) >= 0

\* CatchAllLogRule: eventPattern { source: prefix("") }
CatchAllLogRule(e) == MatchPrefixEmpty(e.source)

\* the rule matching on source alone
CreateScheduledContentRuleSourceOnly(e) == e.source = "scheduled.content"

\* CreateScheduledContentRule: exact match on source and detail-type
CreateScheduledContentRule(e) ==
    /\ e.source = "scheduled.content"
    /\ e.detailType = "ScheduleContentCreated"

(***************************************************************************)
(* createScheduleFunction: the parser middleware with DetailSchema.        *)
(***************************************************************************)
\* z.object({ S: z.string() }), z.object({ N: z.string() })
IsAttrS(a) == "S" \in DOMAIN a
IsAttrN(a) == "N" \in DOMAIN a

ScheduleKeys == {"year", "month", "day", "hour", "minute", "second"}

IsScheduleAttr(a) ==
    /\ "M" \in DOMAIN a
    /\ ScheduleKeys \subseteq DOMAIN a.M
    /\ \A f \in ScheduleKeys : IsAttrN(a.M[f])

RequiredStrings == {"id", "userId", "entity"}
OptionalStrings == {"draftId", "articleId"}

\* DetailSchema.safeParse(detail).success
DetailValid(detail) ==
    /\ "scheduledContent" \in DOMAIN detail
    /\ LET sc == detail.scheduledContent
       IN  /\ RequiredStrings \subseteq DOMAIN sc
           /\ \A f \in RequiredStrings : IsAttrS(sc[f])
           /\ \A f \in OptionalStrings \cap DOMAIN sc : IsAttrS(sc[f])
           /\ "schedule" \in DOMAIN sc
           /\ IsScheduleAttr(sc.schedule)

\* the parsed detail: AttrS and AttrN unwrapped, unknown keys stripped
ParseDetail(detail) ==
    LET sc == detail.scheduledContent
        strs == (RequiredStrings \cup OptionalStrings) \cap DOMAIN sc
    IN  [scheduledContent |->
            [f \in strs |-> sc[f].S]
            @@ [schedule |->
                   [f \in ScheduleKeys |-> Number(sc.schedule.M[f].N)]]]


(***************************************************************************)
(* JSON text, kept as its syntax tree: a string, a number in decimal       *)
(* digits, or an object as the sequence of its members in print order.     *)
(***************************************************************************)
JsonString(v) == [t |-> "string", v |-> v]
JsonNumber(n) == [t |-> "number", v |-> NumberToString(n)]
JsonObject(members) == [t |-> "object", v |-> members]

ScheduleKeyOrder == <<"year", "month", "day", "hour", "minute", "second">>
PostKeyOrder ==
    <<"id", "userId", "draftId", "articleId", "entity", "schedule">>

StringifySchedule(schedule) ==
    JsonObject([i \in 1..Len(ScheduleKeyOrder) |->
        <<ScheduleKeyOrder[i], JsonNumber(schedule[ScheduleKeyOrder[i]])>>])

\* JSON.stringify of a parsed record: undefined properties are left out
StringifyPost(post) ==
    LET present == SelectSeq(PostKeyOrder, LAMBDA k : k \in DOMAIN post)
    IN  JsonObject([i \in 1..Len(present) |->
            <<present[i],
              IF present[i] = "schedule" THEN StringifySchedule(post.schedule)
              ELSE JsonString(post[present[i]])>>])

\* JSON.stringify(payload) for payload = { scheduledContent, context }
JSONStringify(payload) ==
    JsonObject(<< <<"scheduledContent", StringifyPost(payload.scheduledContent)>>,
                  <<"context", JsonString(payload.context)>> >>)

\* JSON.parse(text)
RECURSIVE JSONParse(_)
JSONParse(text) ==
    IF text.t = "string" THEN text.v
    ELSE IF text.t = "number" THEN Number(text.v)
    ELSE LET members == text.v
             keys == {members[i][1] : i \in 1..Len(members)}
             last(k) == CHOOSE i \in 1..Len(members) :
                           /\ members[i][1] = k
                           /\ \A j \in 1..Len(members) :
                                 members[j][1] = k => j <= i
         IN  [k \in keys |-> JSONParse(members[last(k)][2])]

(***************************************************************************)
(* createScheduleFunction: createSchedule and baseHandler.                 *)
(***************************************************************************)
\* one name for every record of an owner
ScheduleNameOfUser(post) == post.userId \o "-scheduled-post"

\* the name made from the owner as well as the id
ScheduleNameWithUser(post) ==
    post.id \o "-" \o post.userId \o "-scheduled-post"

\* `${post.id}-scheduled-post`
ScheduleName(post) == post.id \o "-scheduled-post"

\* `Post ${post.id} scheduled by ${post.userId}`
ScheduleDescription(post) ==
    "Post " \o post.id \o " scheduled by " \o post.userId

\* the payload carrying only the record's id
PayloadIdOnly(post) == [scheduledContent |-> [id |-> post.id], context |-> "24hr"]

\* { scheduledContent: post, context: "24hr" }
Payload(post) == [scheduledContent |-> post, context |-> "24hr"]

\* ActionAfterCompletion.NONE
ActionAfterCompletionNone(args) == "NONE"

\* ActionAfterCompletion.DELETE
ActionAfterCompletionOf(args) == "DELETE"

\* the CreateScheduleCommand createSchedule(args) sends
CreateScheduleCommand(args) ==
    [Name |-> args.name,
     GroupName |-> "ContentScheduledGroup",
     Target |-> [RoleArn |-> "ScheduledRole", Arn |-> "SendPostsFunction",
                 Input |-> JSONStringify(args.payload)],
     ActionAfterCompletion |-> ActionAfterCompletionOf(args),
     FlexibleTimeWindow |-> [Mode |-> "OFF"],
     Description |-> args.description,
     ScheduleExpression |-> args.scheduleExpression]

\* the arguments with a name that also depends on the fire expression
CreateScheduleArgsNamedByExpression(post, scheduleExpression) ==
    [name |-> <<ScheduleName(post), scheduleExpression>>,
     description |-> ScheduleDescription(post),
     payload |-> Payload(post),
     scheduleExpression |-> scheduleExpression]

\* the arguments baseHandler passes to createSchedule
CreateScheduleArgs(post, scheduleExpression) ==
    [name |-> ScheduleName(post),
     description |-> ScheduleDescription(post),
     payload |-> Payload(post),
     scheduleExpression |-> scheduleExpression]


(***************************************************************************)
(* EventBridge Scheduler and the clock.                                    *)
(***************************************************************************)
\* CreateSchedule is rejected with ConflictException when the group already
\* holds a schedule of that name
NameTaken(schedules, cmd) ==
    \E j \in schedules : j.Name = cmd.Name /\ j.GroupName = cmd.GroupName

\* a one-time schedule is due from the instant of its at() expression on
Due(j, t) == NotAfter(AtInstant(j.ScheduleExpression), t)

ClockBase == NewDateLocal(2025, 5, 1, 9, 0, 0)

\* instants at which something happens, as milliseconds after ClockBase
ClockOffsets == {0, 30000, 3600000}

ClockInstants == {PlusMs(ClockBase, k) : k \in ClockOffsets}

(***************************************************************************)
(* State.                                                                  *)
(***************************************************************************)
VARIABLES
    now,          \* the clock every new Date() reads
    ksuids,       \* identifiers util.autoKsuid() has handed out
    stream,       \* the table's stream: sequence of change records
    delivered,    \* per stream position, times the pipe has delivered it
    redeliveries, \* deliveries of a record the pipe had delivered before
    otherInputs,  \* MODIFY and REMOVE records written and foreign events put
    bus,          \* events on ScheduledContentEventBus not yet routed
    logSink,      \* events in /aws/events/ScheduledPostsEventBus/logs
    routed,       \* events the rules have been evaluated on
    inbox,        \* pending invocations of createScheduleFunction
    handlerLog,   \* outcome of every createScheduleFunction invocation
    sendLog,      \* CreateSchedule requests the scheduler service received
    schedules,    \* schedules in ContentScheduledGroup
    completed,    \* schedules that fired and were kept
    dispatchLog,  \* invocations of distributeContentFunction
    cSchedule,    \* the compiler, tried alone: its schedule argument
    cNow,         \*   its now argument
    cResult,      \*   its outcome
    cResultOld    \*   the outcome of the older handler's compiler

pvars == <<now, ksuids, stream, delivered, redeliveries, otherInputs, bus,
           logSink, routed, inbox, handlerLog, sendLog, schedules, completed,
           dispatchLog>>
cvars == <<cSchedule, cNow, cResult, cResultOld>>
vars == <<pvars, cvars>>

NoResult == [kind |-> "none", expr |-> <<>>, diffMinutes |-> 0, target |-> <<>>]

PInit ==
    /\ now = ClockBase
    /\ ksuids = 0
    /\ stream = <<>>
    /\ delivered = <<>>
    /\ redeliveries = 0
    /\ otherInputs = 0
    /\ bus = {}
    /\ logSink = {}
    /\ routed = {}
    /\ inbox = {}
    /\ handlerLog = {}
    /\ sendLog = {}
    /\ schedules = {}
    /\ completed = {}
    /\ dispatchLog = {}

Init ==
    /\ PInit
    /\ cSchedule = Sched(2025, 6, 1, 10, 0, 0)
    /\ cNow = ClockBase
    /\ cResult = NoResult
    /\ cResultOld = NoResult

(***************************************************************************)
(* Actions of the pipeline.                                                *)
(***************************************************************************)
\* time passes
Tick(t) ==
    /\ Before(now, t)
    /\ now' = t
    /\ UNCHANGED <<ksuids, stream, delivered, redeliveries, otherInputs, bus,
                   logSink, routed, inbox, handlerLog, sendLog, schedules,
                   completed, dispatchLog, cvars>>

\* the createScheduledContent mutation: request(ctx) puts the item and the
\* table's stream records the INSERT with the new image
CreateScheduledContent(input) ==
    /\ ksuids < MaxRecords
    /\ LET id == AutoKsuid(ksuids + 1)
       IN  /\ ksuids' = ksuids + 1
           /\ stream' = Append(stream,
                  [eventName |-> "INSERT", NewImage |-> PutItem(input, id, now)])
           /\ delivered' = Append(delivered, 0)
    /\ UNCHANGED <<now, redeliveries, otherInputs, bus, logSink,
                   routed, inbox, handlerLog, sendLog, schedules, completed,
                   dispatchLog, cvars>>

\* another write to an item already there: MODIFY carries the new image,
\* REMOVE carries none (the stream view is NEW_IMAGE)
OtherWrite(i, eventName) ==
    /\ otherInputs < MaxOtherInputs
    /\ i \in 1..Len(stream)
    /\ stream[i].eventName = "INSERT"
    /\ otherInputs' = otherInputs + 1
    /\ stream' = Append(stream,
           [eventName |-> eventName,
            NewImage |-> IF eventName = "MODIFY" THEN stream[i].NewImage
                         ELSE <<>>])
    /\ delivered' = Append(delivered, 0)
    /\ UNCHANGED <<now, ksuids, redeliveries, bus, logSink, routed,
                   inbox, handlerLog, sendLog, schedules, completed, dispatchLog, cvars>>

\* SchedulePostPipe polls stream position i (again, on a retry): a record
\* that passes the filter becomes one event on the bus; the event's id
\* <<i, n>> tells the n-th delivery of position i
PipeDeliver(i) ==
    /\ i \in 1..Len(stream)
    /\ delivered[i] > 0 => redeliveries < MaxRedeliveries
    /\ redeliveries' = IF delivered[i] > 0 THEN redeliveries + 1
                       ELSE redeliveries
    /\ delivered' = [delivered EXCEPT ![i] = @ + 1]
    /\ bus' = IF PipeFilter(stream[i])
              THEN bus \cup {PipeEvent(stream[i], <<i, delivered[i] + 1>>)}
              ELSE bus
    /\ UNCHANGED <<now, ksuids, stream, otherInputs, logSink, routed,
                   inbox, handlerLog, sendLog, schedules, completed, dispatchLog, cvars>>

\* <<source, detail-type>> of the events other producers put on the bus
ForeignKinds ==
    { <<"scheduled.content", "ScheduleContentDeleted">>,
      <<"scheduled.contents", "ScheduleContentCreated">> }

\* an event of another producer; <<0, n>> is the id of the n-th
PutForeignEvent(source, detailType) ==
    /\ otherInputs < MaxOtherInputs
    /\ otherInputs' = otherInputs + 1
    /\ bus' = bus \cup {[id |-> <<0, otherInputs + 1>>, source |-> source,
                         detailType |-> detailType,
                         detail |-> [note |-> "n"]]}
    /\ UNCHANGED <<now, ksuids, stream, delivered, redeliveries, logSink,
                   routed, inbox, handlerLog, sendLog, schedules, completed,
                   dispatchLog, cvars>>

\* the bus evaluates both rules on an event, independently
Route(e) ==
    /\ e \in bus
    /\ bus' = bus \ {e}
    /\ routed' = routed \cup {e}
    /\ logSink' = IF CatchAllLogRule(e) THEN logSink \cup {e} ELSE logSink
    /\ inbox' = IF CreateScheduledContentRule(e) THEN inbox \cup {e} ELSE inbox
    /\ UNCHANGED <<now, ksuids, stream, delivered, redeliveries, otherInputs,
                   handlerLog, sendLog, schedules, completed, dispatchLog,
                   cvars>>

\* outcomes in which scheduler.send was called
SendOutcomes == {"ok", "ConflictException", "ServiceError"}

\* the invocation on event e ends with `outcome`: a schedule is there if
\* the scheduler took cmd, and the log has what the handler returned
Finish(e, outcome, r, cmd) ==
    /\ schedules' = IF outcome = "ok" THEN schedules \cup {cmd} ELSE schedules
    /\ handlerLog' = handlerLog \cup
          {[event |-> e.id, outcome |-> outcome,
            sends |-> IF outcome \in SendOutcomes THEN 1 ELSE 0,
            diffMinutes |-> r.diffMinutes,
            returned |-> IF outcome = "ok"
                         THEN [ok |-> TRUE, id |-> cmd.Name,
                               scheduleExpression |-> r.expr]
                         ELSE [ok |-> FALSE]]}

\* what the scheduler service answers to CreateSchedule(cmd)
SendResult(cmd, serviceUp) ==
    IF ~ serviceUp THEN "ServiceError"
    ELSE IF NameTaken(schedules, cmd) THEN "ConflictException"
    ELSE "ok"

\* a request of the invocation on event e, as the service received it
Request(e, attempt, cmd, result) ==
    [event |-> e.id, attempt |-> attempt, cmd |-> cmd, result |-> result]

\* the handler catching the name collision and reporting success
RespondConflictAsSuccess(e, r, cmd, result) ==
    /\ sendLog' = sendLog \cup {Request(e, 1, cmd, result)}
    /\ IF result = "ConflictException"
       THEN /\ schedules' = schedules
            /\ handlerLog' = handlerLog \cup
                  {[event |-> e.id, outcome |-> "ok", sends |-> 1,
                    diffMinutes |-> r.diffMinutes,
                    returned |-> [ok |-> TRUE, id |-> cmd.Name,
                                  scheduleExpression |-> r.expr]]}
       ELSE Finish(e, result, r, cmd)

\* the await of scheduler.send(cmd) settles with result: a rejection is
\* thrown on, through baseHandler, to the invoker
Respond(e, r, cmd, result) ==
    /\ sendLog' = sendLog \cup {Request(e, 1, cmd, result)}
    /\ Finish(e, result, r, cmd)

\* createSchedule sending the command again after a service failure
SendRetrying(e, r, cmd, serviceUp) ==
    IF serviceUp THEN Respond(e, r, cmd, SendResult(cmd, serviceUp))
    ELSE /\ sendLog' = sendLog \cup {Request(e, 1, cmd, "ServiceError"),
                                     Request(e, 2, cmd, "ServiceError")}
         /\ Finish(e, "ServiceError", r, cmd)

\* createSchedule: scheduler.send(cmd), which the service may fail
Send(e, r, cmd, serviceUp) ==
    Respond(e, r, cmd, SendResult(cmd, serviceUp))

\* baseHandler sending the command before it looks at what the compiler did
CompiledSendingFirst(e, post, r, serviceUp) ==
    IF r.kind # "ok"
    THEN /\ sendLog' = sendLog \cup
                {Request(e, 1,
                         CreateScheduleCommand(CreateScheduleArgs(post, r.expr)),
                         "ServiceError")}
         /\ Finish(e, "PastScheduleError", r, <<>>)
    ELSE Send(e, r, CreateScheduleCommand(CreateScheduleArgs(post, r.expr)),
              serviceUp)

\* baseHandler after buildAtExpression returned or threw r
Compiled(e, post, r, serviceUp) ==
    IF r.kind # "ok"
    THEN Finish(e, "PastScheduleError", r, <<>>) /\ UNCHANGED sendLog
    ELSE Send(e, r, CreateScheduleCommand(CreateScheduleArgs(post, r.expr)),
              serviceUp)

\* baseHandler(event) with post = event.scheduledContent
baseHandler(e, post, serviceUp) ==
    Compiled(e, post, buildAtExpression(post.schedule, now), serviceUp)

\* the invocation with the parse failure caught, logged and dropped
HandleDropping(e, serviceUp) ==
    /\ e \in inbox
    /\ inbox' = inbox \ {e}
    /\ IF ~ DetailValid(e.detail)
       THEN Finish(e, "dropped", NoResult, <<>>) /\ UNCHANGED sendLog
       ELSE baseHandler(e, ParseDetail(e.detail).scheduledContent, serviceUp)
    /\ UNCHANGED <<now, ksuids, stream, delivered, redeliveries, otherInputs,
                   bus, logSink, routed, completed, dispatchLog, cvars>>

\* one invocation of createScheduleFunction on event e: the parser
\* middleware, then baseHandler on the parsed detail
Handle(e, serviceUp) ==
    /\ e \in inbox
    /\ inbox' = inbox \ {e}
    /\ IF ~ DetailValid(e.detail)
       THEN Finish(e, "ParseError", NoResult, <<>>) /\ UNCHANGED sendLog
       ELSE baseHandler(e, ParseDetail(e.detail).scheduledContent, serviceUp)
    /\ UNCHANGED <<now, ksuids, stream, delivered, redeliveries, otherInputs,
                   bus, logSink, routed, completed, dispatchLog, cvars>>

\* the scheduler fires schedule j: distributeContentFunction is invoked with
\* the stored input, and the schedule is deleted if it says so
Fire(j, failed) ==
    /\ j \in schedules \ completed
    /\ Due(j, now)
    /\ dispatchLog' = dispatchLog \cup
          {[name |-> j.Name, at |-> now, event |-> JSONParse(j.Target.Input),
            failed |-> failed]}
    /\ IF j.ActionAfterCompletion = "DELETE"
       THEN schedules' = schedules \ {j} /\ UNCHANGED completed
       ELSE completed' = completed \cup {j} /\ UNCHANGED schedules
    /\ UNCHANGED <<now, ksuids, stream, delivered, redeliveries, otherInputs,
                   bus, logSink, routed, inbox, handlerLog, sendLog,
                   cvars>>

Next ==
    \/ \E t \in ClockInstants : Tick(t)
    \/ \E input \in ContentInputs : CreateScheduledContent(input)
    \/ \E i \in 1..Len(stream), k \in {"MODIFY", "REMOVE"} : OtherWrite(i, k)
    \/ \E i \in 1..Len(stream) : PipeDeliver(i)
    \/ \E k \in ForeignKinds : PutForeignEvent(k[1], k[2])
    \/ \E e \in bus : Route(e)
    \/ \E e \in inbox, up \in BOOLEAN : Handle(e, up)
    \/ \E j \in schedules, failed \in BOOLEAN : Fire(j, failed)

Spec == Init /\ [][Next]_vars

(***************************************************************************)
(* The compiler tried alone on bounded inputs.                             *)
(***************************************************************************)
CInit ==
    /\ PInit
    /\ cSchedule \in ScheduleSet
    /\ cNow \in NowSet
    /\ cResult = NoResult
    /\ cResultOld = NoResult

\* one call buildAtExpression(schedule, now)
Compile ==
    /\ cResult = NoResult
    /\ cResult' = buildAtExpression(cSchedule, cNow)
    /\ UNCHANGED <<cSchedule, cNow, cResultOld, pvars>>

\* one call of the older handler's buildAtExpression(schedule, now)
CompileOlder ==
    /\ cResultOld = NoResult
    /\ cResultOld' = buildAtExpressionOlder(cSchedule, cNow)
    /\ UNCHANGED <<cSchedule, cNow, cResult, pvars>>

CNext == Compile \/ CompileOlder

CompileSpec == CInit /\ [][CNext]_vars


(***************************************************************************)
(* Properties of the compiler, under CompileSpec.                          *)
(***************************************************************************)
cTarget == TargetLocal(cSchedule)
cCalled == cResult # NoResult

\* the instant t with its milliseconds dropped
WholeSecond(t) == [day |-> t.day, ms |-> t.ms - (t.ms % 1000)]

\* d = floor((target - now) / 60s): now + d min <= target < now + (d + 1) min
IsFloorMinutes(d, t, target) ==
    /\ NotAfter(PlusMinutes(t, d), target)
    /\ Before(target, PlusMinutes(t, d + 1))

\* C2 as stated: for a target strictly more than one minute after now, the
\* call returns an expression whose decoded instant equals
\* now + floor((target - now) / 60s) minutes
C2_DecodedIsNowPlusFloorMinutes ==
    (cCalled /\ Before(PlusMinutes(cNow, 1), cTarget)) =>
        /\ cResult.kind = "ok"
        /\ AtWellFormed(cResult.expr)
        /\ IsFloorMinutes(cResult.diffMinutes, cNow, cTarget)
        /\ AtInstant(cResult.expr) = PlusMinutes(cNow, cResult.diffMinutes)

\* C2 amended: for a target strictly more than one minute after now, the
\* call returns an expression whose decoded instant equals
\* now + floor((target - now) / 60s) minutes with the milliseconds of now
\* dropped
C2_DecodedIsNowPlusFloorMinutesWholeSecond ==
    (cCalled /\ Before(PlusMinutes(cNow, 1), cTarget)) =>
        /\ cResult.kind = "ok"
        /\ AtWellFormed(cResult.expr)
        /\ IsFloorMinutes(cResult.diffMinutes, cNow, cTarget)
        /\ AtInstant(cResult.expr) =
              WholeSecond(PlusMinutes(cNow, cResult.diffMinutes))

\* a call with the target over a minute away and a now that has milliseconds
C2_Witness ==
    /\ cResult.kind = "ok"
    /\ Before(PlusMinutes(cNow, 1), cTarget)
    /\ cNow.ms % 1000 # 0
    /\ cResult.diffMinutes > 1

\* C3 as stated: every fire expression returned has a seconds field of zero,
\* whatever the seconds of now
C3_SecondsFieldZero ==
    cResult.kind = "ok" => AtFields(cResult.expr).second = 0

\* C3 amended: every fire expression returned has the seconds field of now
\* (it is zero exactly when the seconds field of now is zero)
C3_SecondsFieldIsThatOfNow ==
    cResult.kind = "ok" =>
        /\ AtWellFormed(cResult.expr)
        /\ AtFields(cResult.expr).second = (cNow.ms \div 1000) % 60

\* an expression returned for a now at second 59 and a target at second 0
C3_Witness ==
    /\ cResult.kind = "ok"
    /\ (cNow.ms \div 1000) % 60 = 59
    /\ cSchedule.second = 0

\* C4: for a target at or before now the call fails with the past-schedule
\* error and returns no expression; a target equal to now is rejected, and so
\* is 10:00:00 at now = 10:00:01
C4_PastOrNowRejected ==
    /\ (cCalled /\ NotAfter(cTarget, cNow)) =>
          /\ cResult.kind = "PastScheduleError"
          /\ cResult.expr = <<>>
          /\ cResult.diffMinutes <= 0
    /\ (/\ cCalled
        /\ cSchedule = Sched(2025, 6, 1, 10, 0, 0)
        /\ cNow = NewDateLocal(2025, 5, 1, 10, 0, 1)) =>
          cResult.kind = "PastScheduleError"

\* a call with the target exactly at now
C4_Witness ==
    /\ cResult.kind = "PastScheduleError"
    /\ cTarget = cNow


(***************************************************************************)
(* Properties of the pipeline, under Spec.                                 *)
(***************************************************************************)
Positions == 1..Len(stream)
InsertPositions == {i \in Positions : stream[i].eventName = "INSERT"}

\* stream position i is the insert of a scheduled-content record
IsScheduledInsert(i) ==
    /\ stream[i].eventName = "INSERT"
    /\ stream[i].NewImage.entity.S = "SCHEDULED_CONTENT"

ImageId(i) == stream[i].NewImage.id.S

\* the target instant of the record inserted at position i
ImageTarget(i) ==
    LET m == stream[i].NewImage.schedule.M
    IN  NewDateLocal(Number(m.year.N), Number(m.month.N) - 1, Number(m.day.N),
                     Number(m.hour.N), Number(m.minute.N), Number(m.second.N))

\* the record in the stored input of schedule j
JobRecord(j) == JSONParse(j.Target.Input).scheduledContent

JobsOf(id) == {j \in schedules : JobRecord(j).id = id}
DispatchesOf(id) == {d \in dispatchLog : d.event.scheduledContent.id = id}

\* the events made from stream position i
EventsOf(i, events) == {e \in events : e.id[1] = i}

\* nothing is in flight for position i: it was delivered, none of its events
\* waits on the bus or for the handler, and no schedule is live for it
Settled(i) ==
    /\ delivered[i] > 0
    /\ EventsOf(i, bus \cup inbox) = {}
    /\ JobsOf(ImageId(i)) = {}

\* C1 as stated: every record inserted with entity SCHEDULED_CONTENT and a
\* schedule in the future is dispatched exactly once: never twice, and, once
\* nothing is in flight for it and the scheduler service never failed it,
\* not zero times
C1_DispatchedExactlyOnce ==
    \A i \in Positions :
        (/\ IsScheduledInsert(i)
         /\ "schedule" \in DOMAIN stream[i].NewImage
         /\ Before(stream[i].NewImage.createdOn.N, ImageTarget(i))) =>
            /\ Cardinality(DispatchesOf(ImageId(i))) <= 1
            /\ (/\ Settled(i)
                /\ \A h \in handlerLog :
                      h.event[1] = i => h.outcome # "ServiceError")
                  => Cardinality(DispatchesOf(ImageId(i))) = 1

\* C5: the scheduler never holds two live schedules for one record id, nor
\* two of one name, whatever was delivered and however often
C5_AtMostOneLiveJobPerRecord ==
    /\ \A i \in InsertPositions : Cardinality(JobsOf(ImageId(i))) <= 1
    /\ \A j, k \in schedules : j.Name = k.Name => j = k

\* a record delivered twice, both events handled, one schedule live
C5_Witness ==
    \E i \in InsertPositions :
        /\ delivered[i] = 2
        /\ Cardinality({h \in handlerLog : h.event[1] = i}) = 2
        /\ \E h \in handlerLog :
              h.event[1] = i /\ h.outcome = "ConflictException"
        /\ Cardinality(JobsOf(ImageId(i))) = 1

\* C6: a stream record that is not an insert, or whose entity is not
\* SCHEDULED_CONTENT, never produces an event, and no schedule is ever
\* registered for it
C6_FilterCorrect ==
    /\ \A e \in bus \cup routed :
          e.id[1] > 0 =>
              /\ stream[e.id[1]].eventName = "INSERT"
              /\ stream[e.id[1]].NewImage.entity.S = "SCHEDULED_CONTENT"
    /\ \A h \in handlerLog :
          h.outcome = "ok" =>
              /\ h.event[1] > 0
              /\ stream[h.event[1]].eventName = "INSERT"
              /\ stream[h.event[1]].NewImage.entity.S = "SCHEDULED_CONTENT"

\* a MODIFY or REMOVE record and an insert of another entity were delivered
\* while a scheduled-content insert became an event
C6_Witness ==
    /\ \E i \in Positions :
          stream[i].eventName # "INSERT" /\ delivered[i] > 0
    /\ \E i \in Positions :
          /\ stream[i].eventName = "INSERT"
          /\ stream[i].NewImage.entity.S # "SCHEDULED_CONTENT"
          /\ delivered[i] > 0
    /\ \E i \in Positions : EventsOf(i, routed) # {}

\* the events createScheduleFunction was invoked with, or will be
Invoked == {e \in routed : e \in inbox \/ \E h \in handlerLog : h.event = e.id}

\* C7: of the events the bus has routed, the Schedule Creator is invoked for
\* exactly those whose source is "scheduled.content" and whose detail-type is
\* "ScheduleContentCreated", and every one of them is in the log sink
C7_IndependentFanOut ==
    /\ Invoked = {e \in routed : /\ e.source = "scheduled.content"
                                 /\ e.detailType = "ScheduleContentCreated"}
    /\ inbox \subseteq routed
    /\ \A h \in handlerLog : \E e \in routed : e.id = h.event
    /\ logSink = routed

\* an event that matches only in one field was routed, and so was one that
\* matches in both
C7_Witness ==
    /\ \E e \in routed : /\ e.source = "scheduled.content"
                         /\ e.detailType # "ScheduleContentCreated"
    /\ \E e \in routed : e \in Invoked

\* the record the handler parsed out of the image at stream position i
ParsedRecord(i) ==
    ParseDetail([scheduledContent |-> stream[i].NewImage]).scheduledContent

\* C8: the Dispatch Entry Point receives {scheduledContent, context}, where
\* scheduledContent is the record that entered the registrar and context is
\* the tag "24hr"
C8_PayloadRoundTrip ==
    \A d \in dispatchLog :
        /\ DOMAIN d.event = {"scheduledContent", "context"}
        /\ d.event.context = "24hr"
        /\ \E i \in Positions :
              /\ IsScheduledInsert(i)
              /\ DetailValid([scheduledContent |-> stream[i].NewImage])
              /\ d.event.scheduledContent = ParsedRecord(i)
              /\ d.event.scheduledContent.id = stream[i].NewImage.id.S
              /\ d.event.scheduledContent.schedule.hour =
                    Number(stream[i].NewImage.schedule.M.hour.N)

\* a record with a draftId and no articleId reached the Dispatch Entry Point
C8_Witness ==
    \E d \in dispatchLog :
        /\ "draftId" \in DOMAIN d.event.scheduledContent
        /\ "articleId" \notin DOMAIN d.event.scheduledContent
        /\ d.event.scheduledContent.schedule.hour = 10

At20250601T100000 ==
    <<"a", "t", "(", "2", "0", "2", "5", "-", "0", "6", "-", "0", "1", "T",
      "1", "0", ":", "0", "0", ":", "0", "0", ")">>

\* C9: record abc123 of u1 with schedule 2025-06-01 10:00:00, processed at
\* now = 2025-06-01T09:00:00, gives diffMinutes 60, the fire expression
\* at(2025-06-01T10:00:00) and a job named "abc123-scheduled-post"; every job
\* is named by its record id followed by "-scheduled-post"
C9_EndToEndScenario ==
    /\ now = NewDateLocal(2025, 5, 1, 9, 0, 0) =>
          \A i \in Positions, h \in handlerLog :
              (/\ h.event[1] = i
               /\ h.outcome # "ParseError"
               /\ ImageId(i) = "abc123"
               /\ stream[i].NewImage.userId.S = "u1"
               /\ ImageTarget(i) = NewDateLocal(2025, 5, 1, 10, 0, 0)) =>
                  /\ h.diffMinutes = 60
                  /\ h.outcome # "PastScheduleError"
                  /\ h.outcome = "ok" =>
                        /\ h.returned.scheduleExpression = At20250601T100000
                        /\ \E j \in schedules :
                              /\ j.Name = "abc123-scheduled-post"
                              /\ j.ScheduleExpression = At20250601T100000
    /\ \A j \in schedules \cup completed :
          j.Name = JobRecord(j).id \o "-scheduled-post"
    /\ \A d \in dispatchLog :
          d.name = d.event.scheduledContent.id \o "-scheduled-post"

\* the scenario's job is registered at 09:00:00
C9_Witness ==
    /\ now = NewDateLocal(2025, 5, 1, 9, 0, 0)
    /\ \E j \in schedules :
          /\ j.Name = "abc123-scheduled-post"
          /\ j.ScheduleExpression = At20250601T100000
          /\ JobRecord(j).userId = "u1"

\* every schedule held asks to be deleted after completion
AllDeleteAfterCompletion ==
    \A j \in schedules : j.ActionAfterCompletion = "DELETE"

\* C10: every job is registered with the delete-after-completion policy; a
\* step in which a job fires takes that job out of the scheduler's namespace,
\* whether the dispatch fails or not, registers no job and puts nothing back
\* into the pipeline
C10_DeleteAfterFire ==
    [][/\ AllDeleteAfterCompletion
       /\ completed = {}
       /\ dispatchLog' # dispatchLog =>
             /\ \E j \in schedules :
                   /\ Due(j, now)
                   /\ schedules' = schedules \ {j}
                   /\ \E failed \in BOOLEAN :
                         dispatchLog' = dispatchLog \cup
                            {[name |-> j.Name, at |-> now,
                              event |-> JSONParse(j.Target.Input),
                              failed |-> failed]}
             /\ completed' = {}
             /\ UNCHANGED <<stream, delivered, bus, inbox, handlerLog>>]_vars

\* a dispatch failed and its job is gone
C10_Witness ==
    \E d \in dispatchLog :
        /\ d.failed
        /\ \A j \in schedules \cup completed : j.Name # d.name


\* the requests the service received from the invocation on the event `id`
RequestsOf(id) == {c \in sendLog : c.event = id}

\* C11: an invocation that reaches createSchedule makes exactly one request
\* to the scheduler service; when the service fails or rejects it, the
\* invocation ends with that very error, returns nothing, makes no second
\* request and registers nothing
C11_OneCallFailurePropagated ==
    /\ \A h \in handlerLog :
          /\ Cardinality(RequestsOf(h.event)) <= 1
          /\ h.outcome \notin {"ParseError", "PastScheduleError"} =>
                /\ Cardinality(RequestsOf(h.event)) = 1
                /\ \A c \in RequestsOf(h.event) :
                      /\ c.attempt = 1
                      /\ h.outcome = c.result
                      /\ h.returned.ok = (c.result = "ok")
                      /\ c.result # "ok" =>
                            \A j \in schedules : j = c.cmd =>
                                \E c2 \in sendLog : c2.cmd = j /\ c2.result = "ok"
    /\ \A c \in sendLog : \E h \in handlerLog : h.event = c.event

\* the service failed one invocation's request and rejected another's
C11_Witness ==
    /\ \E h \in handlerLog :
          h.outcome = "ServiceError" /\ Cardinality(RequestsOf(h.event)) = 1
    /\ \E h \in handlerLog : h.outcome = "ConflictException"

\* the invocations already logged for stream position i
HandledOf(i) == {h \in handlerLog : h.event[1] = i}

\* C12: once the handling of an event of a record has failed with the
\* past-schedule error, every later handling of an event of the same record
\* fails with it too; and the failed invocation makes no request, registers
\* nothing and puts the event back nowhere
C12_PastRejectionStable ==
    [][\A h2 \in handlerLog' \ handlerLog :
          /\ (\E h1 \in HandledOf(h2.event[1]) :
                 h1.outcome = "PastScheduleError")
                => h2.outcome = "PastScheduleError"
          /\ h2.outcome = "PastScheduleError" =>
                /\ inbox' = {e \in inbox : e.id # h2.event}
                /\ UNCHANGED <<bus, sendLog, schedules, stream, delivered>>]_vars

\* an event rejected 30 s before its target and its redelivery rejected an
\* hour later
C12_Witness ==
    \E i \in InsertPositions :
        /\ \E h \in HandledOf(i) :
              h.outcome = "PastScheduleError" /\ h.diffMinutes = 0
        /\ \E h \in HandledOf(i) :
              h.outcome = "PastScheduleError" /\ h.diffMinutes < 0

\* outcomes that are an error thrown to the invoker of the function
Failures ==
    {"ParseError", "PastScheduleError", "ServiceError", "ConflictException"}

\* the event with identifier id came from a stream record whose image lacks
\* a field DetailSchema requires
MalformedEvent(id) ==
    /\ id[1] \in InsertPositions
    /\ ~ DetailValid([scheduledContent |-> stream[id[1]].NewImage])

\* C13 as stated: the handling of a malformed event completes without a
\* failure raised to the invoker, and registers no job
C13_MalformedDroppedWithoutFailure ==
    \A h \in handlerLog :
        MalformedEvent(h.event) =>
            /\ h.outcome \notin Failures
            /\ RequestsOf(h.event) = {}

\* C13 amended: the handling of a malformed event fails with the parser's
\* error, raised to the invoker before baseHandler runs; it makes no request
\* to the scheduler, registers no job and leaves every other pending event
\* where it was, to be handled
C13_MalformedRejectedByParser ==
    [][\A h \in handlerLog' \ handlerLog :
          MalformedEvent(h.event) =>
              /\ h.outcome = "ParseError"
              /\ h.returned = [ok |-> FALSE]
              /\ h.sends = 0
              /\ inbox' = {e \in inbox : e.id # h.event}
              /\ UNCHANGED <<bus, sendLog, schedules, stream, delivered>>]_vars

\* a record without its schedule was handled, and a record inserted after it
\* got its job
C13_Witness ==
    \E h1, h2 \in handlerLog :
        /\ MalformedEvent(h1.event)
        /\ h1.outcome = "ParseError"
        /\ h2.event[1] > h1.event[1]
        /\ h2.outcome = "ok"

\* what the invocation on event e would end with if it ran at instant t
\* with the schedules `held` in the group: its outcome and the command it
\* would send
WouldEndWith(e, serviceUp, t, held) ==
    IF ~ DetailValid(e.detail) THEN <<"ParseError", <<>>>>
    ELSE LET post == ParseDetail(e.detail).scheduledContent
             r == buildAtExpression(post.schedule, t)
             cmd == CreateScheduleCommand(CreateScheduleArgs(post, r.expr))
         IN  IF r.kind # "ok" THEN <<"PastScheduleError", <<>>>>
             ELSE IF ~ serviceUp THEN <<"ServiceError", cmd>>
             ELSE IF NameTaken(held, cmd) THEN <<"ConflictException", cmd>>
             ELSE <<"ok", cmd>>

\* the expressions the compiler can return for the record at position i
ExpressionsOf(i) ==
    {buildAtExpression(ParsedRecord(i).schedule, t).expr : t \in ClockInstants}

\* C14: invocations for records of distinct ids do not interfere.  A step
\* that handles one event leaves what every pending event of another record
\* would end with, and would send, as it was, so every order of handling
\* registers the same jobs; and every accepted request is the job of its own
\* record alone: named by that record's id, carrying that record as payload,
\* and held under that name
C14_DistinctIdsIndependent ==
    [][/\ \A h \in handlerLog' \ handlerLog :
             \A e \in inbox', up \in BOOLEAN :
                 ImageId(e.id[1]) # ImageId(h.event[1]) =>
                     WouldEndWith(e, up, now', schedules') =
                         WouldEndWith(e, up, now, schedules)
       /\ \A c \in sendLog' \ sendLog :
             c.result = "ok" =>
                 /\ c.cmd.Name = ImageId(c.event[1]) \o "-scheduled-post"
                 /\ JSONParse(c.cmd.Target.Input) =
                       [scheduledContent |-> ParsedRecord(c.event[1]),
                        context |-> "24hr"]
                 /\ c.cmd.ScheduleExpression \in ExpressionsOf(c.event[1])
                 /\ c.cmd \in schedules'
                 /\ schedules' = schedules \cup {c.cmd}]_vars

\* two records of distinct ids were handled and both got their jobs
C14_Witness ==
    \E h1, h2 \in handlerLog :
        /\ h1.event[1] # h2.event[1]
        /\ h1.outcome = "ok"
        /\ h2.outcome = "ok"
        /\ Cardinality(schedules) = 2

(***************************************************************************)
(* The two compilers compared, under CompileSpec.                          *)
(***************************************************************************)
\* C15: on the same schedule and the same now the two compilers either both
\* reject with the past-schedule error, with the same diagnostics, or both
\* return the same expression; and both drop what the target has below a
\* whole minute of distance from now: the instant encoded is now, cut to the
\* second, plus the floor of the distance in minutes
C15_VariantsAgree ==
    (cResult # NoResult /\ cResultOld # NoResult) =>
        /\ cResultOld = cResult
        /\ cResult.kind \in {"ok", "PastScheduleError"}
        /\ cResultOld.kind = "ok" =>
              /\ AtWellFormed(cResultOld.expr)
              /\ IsFloorMinutes(cResultOld.diffMinutes, cNow, cTarget)
              /\ AtInstant(cResultOld.expr) =
                    WholeSecond(PlusMinutes(cNow, cResultOld.diffMinutes))

\* both compilers returned, for a target with seconds on another day than a
\* now with seconds and milliseconds
C15_Witness ==
    /\ cResult.kind = "ok"
    /\ cResultOld.kind = "ok"
    /\ cTarget.day # cNow.day
    /\ cSchedule.second = 59
    /\ cNow.ms % MinuteMs = 1001

\* the fire instant encoded in result r lies after t, not after the target,
\* and less than 61 s before the target
FireInstantInWindow(r, t, target) ==
    /\ AtWellFormed(r.expr)
    /\ Before(t, AtInstant(r.expr))
    /\ NotAfter(AtInstant(r.expr), target)
    /\ Before(target, PlusMs(AtInstant(r.expr), 61 * 1000))

\* C16: whenever buildAtExpression returns, in either handler, the instant
\* its expression encodes is strictly later than now, never later than the
\* target, and earlier than the target by less than 61 seconds
C16_FireInstantWindow ==
    /\ cResult.kind = "ok" => FireInstantInWindow(cResult, cNow, cTarget)
    /\ cResultOld.kind = "ok" => FireInstantInWindow(cResultOld, cNow, cTarget)

\* an expression returned that encodes the instant a full 60 s before the
\* target: 59.999 s lost to the floor and 1 ms of now dropped
C16_Witness ==
    /\ cResult.kind = "ok"
    /\ cNow.ms % 1000 = 1
    /\ cTarget = PlusMs(AtInstant(cResult.expr), MinuteMs)

\* C17: a target strictly after now but less than 60 s after it is rejected
\* with the past-schedule error, by either handler: the floor of the distance
\* is 0 minutes and the guard is diffMinutes <= 0
C17_UnderOneMinuteRejected ==
    (Before(cNow, cTarget) /\ Before(cTarget, PlusMinutes(cNow, 1))) =>
        /\ cResult # NoResult =>
              /\ cResult.kind = "PastScheduleError"
              /\ cResult.diffMinutes = 0
              /\ cResult.expr = <<>>
        /\ cResultOld # NoResult =>
              /\ cResultOld.kind = "PastScheduleError"
              /\ cResultOld.diffMinutes = 0

\* a target 59.999 s after now was rejected
C17_Witness ==
    /\ cResult.kind = "PastScheduleError"
    /\ Before(cNow, cTarget)
    /\ cTarget = PlusMs(cNow, MinuteMs - 1)

(***************************************************************************)
(* Rejections and collisions in the pipeline, under Spec.                  *)
(***************************************************************************)
\* the compiler rejects the record of the well-formed event `id` at instant t
RejectedAsPast(id, t) ==
    /\ id[1] \in InsertPositions
    /\ ~ MalformedEvent(id)
    /\ buildAtExpression(ParsedRecord(id[1]).schedule, t).kind
          = "PastScheduleError"

\* C18: a step that handles an event whose schedule the compiler rejects as
\* past ends with the past-schedule error, makes no request to the scheduler
\* and leaves the scheduler's set of jobs as it was
C18_PastRejectionSendsNothing ==
    [][\A h \in handlerLog' \ handlerLog :
          RejectedAsPast(h.event, now) =>
              /\ h.outcome = "PastScheduleError"
              /\ h.sends = 0
              /\ sendLog' = sendLog
              /\ schedules' = schedules
              /\ completed' = completed]_vars

\* an event was rejected as past while the scheduler held another record's job
C18_Witness ==
    \E h \in handlerLog :
        /\ h.outcome = "PastScheduleError"
        /\ RequestsOf(h.event) = {}
        /\ \E j \in schedules : JobRecord(j).id # ImageId(h.event[1])

\* C19: a request sent for a record whose job is live is not accepted: the
\* scheduler rejects it for its name, unless the service fails it first; the
\* invocation ends with that error and returns no success, and the live job
\* stays as it was, with its fire expression and its payload
C19_CollisionRejectedJobUnchanged ==
    [][\A c \in sendLog' \ sendLog :
          JobsOf(ImageId(c.event[1])) # {} =>
              /\ c.result \in {"ConflictException", "ServiceError"}
              /\ \E j \in schedules : j.Name = c.cmd.Name
              /\ \A h \in handlerLog' \ handlerLog :
                    /\ h.event = c.event
                    /\ h.outcome = c.result
                    /\ h.returned = [ok |-> FALSE]
              /\ handlerLog' # handlerLog
              /\ schedules' = schedules
              /\ JobsOf(ImageId(c.event[1]))' = JobsOf(ImageId(c.event[1]))]_vars

\* a redelivered event asked for another fire instant than the live job has
\* and was rejected for the name; the job has the instant it had
C19_Witness ==
    \E c1, c2 \in sendLog :
        /\ c1.event[1] = c2.event[1]
        /\ c1.result = "ok"
        /\ c2.result = "ConflictException"
        /\ c2.cmd.Name = c1.cmd.Name
        /\ c2.cmd.ScheduleExpression # c1.cmd.ScheduleExpression
        /\ c1.cmd \in schedules
        /\ c2.cmd \notin schedules

=============================================================================
